---- MODULE Spec2Model ----
(***************************************************************************)
(* State model of Shivi_DeepResearch_Agent/state_scope.py: the AgentState  *)
(* channels with their reducers (add_messages for the two message logs,    *)
(* operator.add for the two note accumulators, plain overwrite for the     *)
(* singleton fields) and the two structured-output schemas                 *)
(* (ClarifyWithUser, ResearchQuestion).                                    *)
(***************************************************************************)
EXTENDS Integers, Sequences, FiniteSets, TLC

\* Python's None and a present value: Optional[T] is <<>> or <<v>>.
None == <<>>
Some(x) == <<x>>

(***************************************************************************)
(* Bounds of the model.                                                    *)
(***************************************************************************)
\* Entries the two message logs hold together (SpecMerge, SpecIds).
MaxMsgs == 3
\* uuid4() draws of one session (SpecIds).
MaxUuid == 1
\* Times the clarification gate may ask the user (Spec).
MaxRounds == 1

(***************************************************************************)
(* Messages (langchain_core BaseMessage: id, type, content).               *)
(***************************************************************************)
REMOVE_ALL_MESSAGES == "__remove_all__"

\* str(uuid.uuid4()): the k-th draw of the session, distinct from every
\* earlier draw and from the identities callers supply.
UuidPool ==
    <<"uuid-1", "uuid-2", "uuid-3", "uuid-4", "uuid-5", "uuid-6",
      "uuid-7", "uuid-8", "uuid-9", "uuid-10", "uuid-11", "uuid-12">>
uuid4(k) == UuidPool[k]

HumanMessage(id, content) == [id |-> id, type |-> "human", content |-> content]
AIMessage(id, content) == [id |-> id, type |-> "ai", content |-> content]
RemoveMessage(id) == [id |-> id, type |-> "remove", content |-> ""]

IsRemove(m) == m.type = "remove"

\* Identities a caller supplies. PlainIds are ordinary ones; OddIds are the
\* absent identity (None) and the empty string.
PlainIds == {Some("a"), Some("b"), Some("c")}
OddIds == {None, Some("")}

\* The messages a node may return for a message channel, with identities of ids.
Ordinary(ids) ==
    {HumanMessage(i, "x") : i \in ids} \cup {AIMessage(i, "y") : i \in ids}

Removals(ids) == {RemoveMessage(i) : i \in ids \cup {Some(REMOVE_ALL_MESSAGES)}}

\* One node's contribution to a message channel: up to two ordinary messages,
\* or one removal marker.
Contributions(ids) ==
    {<<>>} \cup {<<m>> : m \in Ordinary(ids) \cup Removals(ids)}
           \cup {<<m1, m2>> : m1 \in Ordinary(ids), m2 \in Ordinary(ids)}

(***************************************************************************)
(* add_messages(left, right), the reducer of messages and                  *)
(* supervisor_messages.                                                    *)
(***************************************************************************)
Ids(log) == {log[i].id : i \in DOMAIN log}

NoneCount(ms) == Cardinality({i \in DOMAIN ms : ms[i].id = None})

\* "if m.id is None: m.id = str(uuid.uuid4())", n draws made so far.
AssignIdsNone(ms, n) == ms
AssignIds(ms, n) ==
    [i \in DOMAIN ms |->
        IF ms[i].id = None
        THEN [ms[i] EXCEPT !.id =
                Some(uuid4(n + Cardinality({j \in 1..i : ms[j].id = None})))]
        ELSE ms[i]]

\* merged_by_id.get(id): the index the dict holds for id, 0 for no entry.
\* The dict is built by enumerating merged, so of equal ids the last wins.
LookupNever(merged, id) == 0
Lookup(merged, id) ==
    LET hits == {i \in DOMAIN merged : merged[i].id = id}
    IN  IF hits = {} THEN 0 ELSE CHOOSE i \in hits : \A j \in hits : j <= i

\* merged.append(m)
AppendFront(merged, m) == <<m>> \o merged
AppendMsg(merged, m) == Append(merged, m)

\* The merge loop over right; acc is [merged, ids_to_remove, err].
RECURSIVE MergeLoop(_, _)
MergeLoop(acc, right) ==
    IF right = <<>> \/ acc.err # "none" THEN acc
    ELSE
        LET m == Head(right)
            idx == Lookup(acc.merged, m.id)
        IN  IF idx # 0
            THEN IF IsRemove(m)
                 THEN MergeLoop([acc EXCEPT !.remove = @ \cup {m.id}], Tail(right))
                 ELSE MergeLoop([acc EXCEPT !.remove = @ \ {m.id},
                                            !.merged[idx] = m], Tail(right))
            ELSE IF IsRemove(m)
                 THEN [acc EXCEPT !.err = "ValueError"]
                 ELSE MergeLoop([acc EXCEPT !.merged = AppendMsg(@, m)], Tail(right))

\* The index of the last RemoveMessage(REMOVE_ALL_MESSAGES) of right, 0 for none.
RemoveAllIdx(right) ==
    LET hits == {i \in DOMAIN right :
                    IsRemove(right[i]) /\ right[i].id = Some(REMOVE_ALL_MESSAGES)}
    IN  IF hits = {} THEN 0 ELSE CHOOSE i \in hits : \A j \in hits : j <= i

\* The return of add_messages once the ids are assigned: right from past its
\* last remove-all marker if it holds one, else the merge of right into left
\* without the entries marked for removal. [err, value, uuids]: the exception
\* raised ("none" for a return), the returned list (the channel keeps left
\* when the call raises), the uuid4() draws made.
Merge(left, l, r, n) ==
    IF RemoveAllIdx(r) # 0
    THEN [err |-> "none", value |-> SubSeq(r, RemoveAllIdx(r) + 1, Len(r)),
          uuids |-> n]
    ELSE LET acc == MergeLoop([merged |-> l, remove |-> {}, err |-> "none"], r)
         IN  IF acc.err # "none"
             THEN [err |-> acc.err, value |-> left, uuids |-> n]
             ELSE [err |-> "none",
                   value |-> SelectSeq(acc.merged, LAMBDA m : m.id \notin acc.remove),
                   uuids |-> n]

\* add_messages(left, right) with n uuid4() draws made before the call.
add_messages(left, right, n) ==
    Merge(left, AssignIds(left, n), AssignIds(right, n + NoneCount(left)),
          n + NoneCount(left) + NoneCount(right))

(***************************************************************************)
(* operator.add(left, right) on lists, the reducer of raw_notes and notes. *)
(***************************************************************************)
RECURSIVE AddUnique(_, _)
AddUnique(left, right) ==
    IF right = <<>> THEN left
    ELSE AddUnique(IF \E i \in DOMAIN left : left[i] = Head(right)
                   THEN left ELSE Append(left, Head(right)), Tail(right))
operator_add(left, right) == left \o right

\* Texts a node may return for a note accumulator.
NoteContributions == {<<>>, <<"a">>, <<"b">>, <<"a", "b">>}

(***************************************************************************)
(* The structured-output schemas (pydantic BaseModel). A field declared     *)
(* with Field(description=...) and no default is required; str accepts any  *)
(* string, the empty one included. An object from the model layer gives     *)
(* each field as None (the key is missing) or Some(value).                  *)
(***************************************************************************)
ClarifyWithUserFields == {"need_clarification", "question", "verification"}

ResearchQuestionFields == {"research_brief"}

\* BaseModel.__init__: the exception validating obj against fields raises.
ValidateUsedOnly(fields, obj) ==
    IF "need_clarification" \notin fields
    THEN (IF \E f \in fields : obj[f] = None THEN "ValidationError" ELSE "none")
    ELSE IF obj.need_clarification = None THEN "ValidationError"
    ELSE IF obj.need_clarification[1] /\ obj.question = None THEN "ValidationError"
    ELSE IF ~obj.need_clarification[1] /\ obj.verification = None
    THEN "ValidationError"
    ELSE "none"
Validate(fields, obj) ==
    IF \E f \in fields : obj[f] = None THEN "ValidationError" ELSE "none"

\* What the model layer may return where a ClarifyWithUser is expected.
ClarifyObjects ==
    [need_clarification : {None, Some(TRUE), Some(FALSE)},
     question : {None, Some(""), Some("Q")},
     verification : {None, Some(""), Some("V")}]

\* What the model layer may return where a ResearchQuestion is expected.
BriefObjects == [research_brief : {None, Some(""), Some("X")}]

(***************************************************************************)
(* AgentState: one channel per field.                                      *)
(***************************************************************************)
VARIABLES
    messages,             \* MessagesState.messages, reducer add_messages
    research_brief,       \* Optional[str], overwritten
    supervisor_messages,  \* reducer add_messages
    raw_notes,            \* reducer operator.add
    notes,                \* reducer operator.add
    final_report,         \* str, overwritten; None until first written
    uuids,                \* uuid4() draws made so far
    last,                 \* the case of add_messages the message-channel write
                          \* applied last was
    pc,                   \* the stage the pipeline is at
    rounds,               \* times the gate has asked the user
    received,             \* the object the model layer returned last, and the
                          \* exception its validation raised
    task,                 \* each sub-task's position
    contribution,         \* each sub-task's returned state update
    applied               \* the sub-tasks in the order their updates were applied

channels == <<messages, research_brief, supervisor_messages, raw_notes, notes,
              final_report>>
pipeline == <<pc, rounds, received, task, contribution, applied>>
vars == <<channels, uuids, last, pipeline>>

\* The cases of add_messages a write of inc to a channel holding log exercises.
IsOrdinary(inc) == \A i \in DOMAIN inc : ~IsRemove(inc[i])

IsUpdate(log, inc) ==
    /\ inc # <<>>
    /\ IsOrdinary(inc)
    /\ \A i \in DOMAIN inc : inc[i].id \in Ids(log)

IsAllNew(log, inc) ==
    /\ inc # <<>>
    /\ IsOrdinary(inc)
    /\ \A i \in DOMAIN inc : inc[i].id # None /\ inc[i].id \notin Ids(log)
    /\ \A i, j \in DOMAIN inc : i # j => inc[i].id # inc[j].id

\* The case of add_messages the write of inc to a channel holding log was.
Case(log, inc, res) ==
    IF res.err # "none" THEN "rejected"
    ELSE IF inc # <<>> /\ res.value = log THEN "redelivered"
    ELSE IF IsUpdate(log, inc) THEN "update"
    ELSE IF IsAllNew(log, inc) THEN (IF Len(inc) > 1 THEN "new-many" ELSE "new")
    ELSE "other"

Tasks == {1, 2}

NoWrite == "init"
NothingReceived == [schema |-> "none", obj |-> <<>>, err |-> "none"]

\* AgentState as the graph creates it: every reducer channel empty, every
\* plain channel unset.
InitState ==
    /\ messages = <<>>
    /\ research_brief = None
    /\ supervisor_messages = <<>>
    /\ raw_notes = <<>>
    /\ notes = <<>>
    /\ final_report = None
    /\ uuids = 0
    /\ last = NoWrite
    /\ pc = "start"
    /\ rounds = 0
    /\ received = NothingReceived
    /\ task = [t \in Tasks |-> "idle"]
    /\ contribution = [t \in Tasks |-> <<>>]
    /\ applied = <<>>

\* A node returns {"messages": inc}: the channel's value becomes
\* add_messages(value, inc); an exception leaves the channel as it was.
WriteMessages(inc) ==
    \E res \in {add_messages(messages, inc, uuids)} :
        /\ messages' = res.value
        /\ uuids' = res.uuids
        /\ last' = Case(messages, inc, res)

\* A node returns {"supervisor_messages": inc}.
WriteSupervisorMessages(inc) ==
    \E res \in {add_messages(supervisor_messages, inc, uuids)} :
        /\ supervisor_messages' = res.value
        /\ uuids' = res.uuids
        /\ last' = Case(supervisor_messages, inc, res)

\* A node returns {"raw_notes": c} / {"notes": c}.
WriteRawNotes(c) == raw_notes' = operator_add(raw_notes, c)
WriteNotes(c) == notes' = operator_add(notes, c)

\* A node returns {"research_brief": v} / {"final_report": v}: no reducer, the
\* value is overwritten, whatever the other channels hold.
WriteResearchBrief(v) == research_brief' = Some(v)
WriteFinalReport(v) == final_report' = Some(v)

(***************************************************************************)
(* The message reducer on its own: any node writes any contribution to     *)
(* either message channel.                                                 *)
(***************************************************************************)
LogsWithin(n) == Len(messages') + Len(supervisor_messages') <= n

MergeMessages(ids) ==
    /\ \E inc \in Contributions(ids) : WriteMessages(inc)
    /\ UNCHANGED <<research_brief, supervisor_messages, raw_notes, notes,
                   final_report, pipeline>>
    /\ LogsWithin(MaxMsgs)
    /\ uuids' <= MaxUuid

MergeSupervisorMessages(ids) ==
    /\ \E inc \in Contributions(ids) : WriteSupervisorMessages(inc)
    /\ UNCHANGED <<messages, research_brief, raw_notes, notes, final_report,
                   pipeline>>
    /\ LogsWithin(MaxMsgs)
    /\ uuids' <= MaxUuid

\* Channel writes with ordinary identities.
MergeNext == MergeMessages(PlainIds) \/ MergeSupervisorMessages(PlainIds)

SpecMerge == InitState /\ [][MergeNext]_vars

\* Channel writes with absent and empty identities.
IdNext == MergeMessages(OddIds) \/ MergeSupervisorMessages(OddIds)

SpecIds == InitState /\ [][IdNext]_vars

(***************************************************************************)
(* The pipeline over AgentState: clarification gate, brief extraction,     *)
(* supervisor stage with concurrent sub-tasks, final reduction.            *)
(***************************************************************************)
\* The input boundary: the user's request seeds the conversation log.
Start ==
    /\ pc = "start"
    /\ WriteMessages(<<HumanMessage(None, "x")>>)
    /\ pc' = "clarify"
    /\ UNCHANGED <<research_brief, supervisor_messages, raw_notes, notes,
                   final_report, rounds, received, task, contribution, applied>>

\* Where the gate sends the pipeline on a validated decision.
RouteAlwaysOn(need_clarification) == "write_research_brief"
Route(need_clarification) ==
    IF need_clarification THEN "awaiting_user" ELSE "write_research_brief"

\* The clarification gate: the model layer's object is validated as a
\* ClarifyWithUser; a rejected one changes nothing (the stage may be retried),
\* a validated one surfaces its question and halts, or surfaces its
\* verification and proceeds.
Clarify(obj) ==
    /\ pc = "clarify"
    /\ received' = [schema |-> "ClarifyWithUser", obj |-> obj,
                    err |-> Validate(ClarifyWithUserFields, obj)]
    /\ IF received'.err # "none"
       THEN UNCHANGED <<channels, uuids, last, pc, rounds>>
       ELSE /\ pc' = Route(obj.need_clarification[1])
            /\ IF obj.need_clarification[1]
               THEN /\ rounds < MaxRounds
                    /\ rounds' = rounds + 1
                    /\ WriteMessages(<<AIMessage(None, obj.question[1])>>)
               ELSE /\ rounds' = rounds
                    /\ WriteMessages(<<AIMessage(None, obj.verification[1])>>)
            /\ UNCHANGED <<research_brief, supervisor_messages, raw_notes, notes,
                           final_report>>
    /\ UNCHANGED <<task, contribution, applied>>

\* The halted pipeline resumes on the user's answer.
UserReply ==
    /\ pc = "awaiting_user"
    /\ WriteMessages(<<HumanMessage(None, "x")>>)
    /\ pc' = "clarify"
    /\ UNCHANGED <<research_brief, supervisor_messages, raw_notes, notes,
                   final_report, rounds, received, task, contribution, applied>>

\* Brief extraction: the model layer's object is validated as a
\* ResearchQuestion; a validated one sets research_brief, seeds the supervisor
\* log with it and starts the sub-tasks.
ExtractBrief(obj) ==
    /\ pc = "write_research_brief"
    /\ received' = [schema |-> "ResearchQuestion", obj |-> obj,
                    err |-> Validate(ResearchQuestionFields, obj)]
    /\ IF received'.err # "none"
       THEN UNCHANGED <<channels, uuids, last, pc, task>>
       ELSE /\ WriteResearchBrief(obj.research_brief[1])
            /\ WriteSupervisorMessages(<<HumanMessage(None, obj.research_brief[1])>>)
            /\ pc' = "supervisor"
            /\ task' = [t \in Tasks |-> "running"]
            /\ UNCHANGED <<messages, raw_notes, notes, final_report>>
    /\ UNCHANGED <<rounds, contribution, applied>>

\* What a sub-task may return: one message for the supervisor log and its
\* raw notes.
TaskContributions ==
    [supervisor_messages : {<<m>> : m \in Ordinary({Some("a"), Some("b")})},
     raw_notes : NoteContributions]

\* A running sub-task returns its contribution.
TaskReturn(t, c) ==
    /\ pc = "supervisor"
    /\ task[t] = "running"
    /\ task' = [task EXCEPT ![t] = "returned"]
    /\ contribution' = [contribution EXCEPT ![t] = c]
    /\ UNCHANGED <<channels, uuids, last, pc, rounds, received, applied>>

\* A running sub-task fails or times out: it contributes nothing.
TaskFail(t) ==
    /\ pc = "supervisor"
    /\ task[t] = "running"
    /\ task' = [task EXCEPT ![t] = "failed"]
    /\ UNCHANGED <<channels, uuids, last, pc, rounds, received, contribution,
                   applied>>

\* The contribution of a returned sub-task is merged, each field by its
\* reducer.
ApplyContribution(t) ==
    /\ pc = "supervisor"
    /\ task[t] = "returned"
    /\ WriteSupervisorMessages(contribution[t].supervisor_messages)
    /\ WriteRawNotes(contribution[t].raw_notes)
    /\ task' = [task EXCEPT ![t] = "merged"]
    /\ applied' = Append(applied, t)
    /\ UNCHANGED <<messages, research_brief, notes, final_report, pc, rounds,
                   received, contribution>>

\* The supervisor stage ends: it fails if no sub-task contributed.
SupervisorDone ==
    /\ pc = "supervisor"
    /\ \A t \in Tasks : task[t] \in {"merged", "failed"}
    /\ pc' = IF \E t \in Tasks : task[t] = "merged" THEN "reduce" ELSE "failed"
    /\ UNCHANGED <<channels, uuids, last, rounds, received, task, contribution,
                   applied>>

\* The final reduction derives the notes from the raw notes ...
DeriveNotes ==
    /\ pc = "reduce"
    /\ WriteNotes(raw_notes)
    /\ pc' = "report"
    /\ UNCHANGED <<messages, research_brief, supervisor_messages, raw_notes,
                   final_report, uuids, last, rounds, received, task,
                   contribution, applied>>

\* ... and writes the final report.
FinalReport ==
    /\ pc = "report"
    /\ WriteFinalReport("R")
    /\ pc' = "done"
    /\ UNCHANGED <<messages, research_brief, supervisor_messages, raw_notes,
                   notes, uuids, last, rounds, received, task, contribution,
                   applied>>

Next ==
    \/ Start
    \/ \E obj \in ClarifyObjects : Clarify(obj)
    \/ UserReply
    \/ \E obj \in BriefObjects : ExtractBrief(obj)
    \/ \E t \in Tasks : \E c \in TaskContributions : TaskReturn(t, c)
    \/ \E t \in Tasks : TaskFail(t)
    \/ \E t \in Tasks : ApplyContribution(t)
    \/ SupervisorDone
    \/ DeriveNotes
    \/ FinalReport

Spec == InitState /\ [][Next]_vars

(***************************************************************************)
(* Properties of the message reducer.                                      *)
(***************************************************************************)
Logs == {messages, supervisor_messages}

Distinct(log) == \A i, j \in DOMAIN log : i # j => log[i].id # log[j].id

\* The last message of inc with the identity id.
LastWith(inc, id) ==
    inc[CHOOSE j \in DOMAIN inc :
            inc[j].id = id /\ \A k \in DOMAIN inc : inc[k].id = id => k <= j]

\* C1: merging messages whose identities are all in the log already (either
\* log) replaces each such entry at its position by the incoming message and
\* leaves every other entry alone: the length and the identity at every
\* position are as before the merge.
C1_UpdateInPlace ==
    \A log \in Logs : \A inc \in Contributions(PlainIds) :
        IsUpdate(log, inc) =>
            \A res \in {add_messages(log, inc, uuids)} :
                /\ res.err = "none"
                /\ Len(res.value) = Len(log)
                /\ \A i \in DOMAIN log :
                      /\ res.value[i].id = log[i].id
                      /\ res.value[i] =
                            IF log[i].id \in Ids(inc)
                            THEN LastWith(inc, log[i].id) ELSE log[i]

\* A write replaced an entry of the two-entry conversation log in place.
C1_Witness ==
    /\ last = "update"
    /\ supervisor_messages = <<>>
    /\ Len(messages) = 2

\* C2: merging N messages with pairwise distinct identities, none of them in
\* the log, yields the old log followed by the N messages in input order.
C2_AppendNew ==
    \A log \in Logs : \A inc \in Contributions(PlainIds) :
        IsAllNew(log, inc) =>
            \A res \in {add_messages(log, inc, uuids)} :
                /\ res.err = "none"
                /\ Len(res.value) = Len(log) + Len(inc)
                /\ SubSeq(res.value, 1, Len(log)) = log
                /\ SubSeq(res.value, Len(log) + 1, Len(res.value)) = inc

\* Two new messages were appended to a supervisor log that held one entry.
C2_Witness ==
    /\ last = "new-many"
    /\ messages = <<>>
    /\ Len(supervisor_messages) = 3

\* C10: for contributions of messages with ordinary identities, merging the
\* contribution a second time changes nothing: merge(merge(L, C), C) equals
\* merge(L, C).
C10_Idempotent ==
    \A log \in Logs : \A inc \in Contributions(PlainIds) :
        IsOrdinary(inc) =>
            \A once \in {add_messages(log, inc, uuids)} :
            \A twice \in {add_messages(once.value, inc, once.uuids)} :
                /\ once.err = "none"
                /\ twice.err = "none"
                /\ twice.value = once.value

\* A contribution of two messages was delivered to a log that held it already.
C10_Witness ==
    /\ last = "redelivered"
    /\ supervisor_messages = <<>>
    /\ Len(messages) = 2
    /\ messages[1].type # messages[2].type

\* The identities uuid4() has produced so far.
Generated == {Some(uuid4(k)) : k \in 1..uuids}

RECURSIVE NotesOf(_)
NotesOf(order) ==
    IF order = <<>> THEN <<>>
    ELSE contribution[Head(order)].raw_notes \o NotesOf(Tail(order))

\* C3: merging a contribution C into an accumulator E (raw_notes, notes)
\* yields E followed by C, duplicates kept and order kept: [a] then [b] is
\* [a, b], [a] twice is [a, a], and merging a non-empty C again changes the
\* result again. raw_notes holds the sub-tasks' notes in the order applied.
C3_Concatenate ==
    /\ \A acc \in {raw_notes, notes} : \A c \in NoteContributions :
          \A r \in {operator_add(acc, c)} :
              /\ Len(r) = Len(acc) + Len(c)
              /\ \A i \in DOMAIN acc : r[i] = acc[i]
              /\ \A j \in DOMAIN c : r[Len(acc) + j] = c[j]
              /\ c # <<>> => operator_add(r, c) # r
    /\ operator_add(operator_add(<<>>, <<"a">>), <<"b">>) = <<"a", "b">>
    /\ operator_add(operator_add(<<>>, <<"a">>), <<"a">>) = <<"a", "a">>
    /\ raw_notes = NotesOf(applied)

\* Both sub-tasks contributed the note "a", and raw_notes holds it twice.
C3_Witness ==
    /\ \A t \in Tasks : task[t] = "merged" /\ contribution[t].raw_notes = <<"a">>
    /\ raw_notes = <<"a", "a">>

(***************************************************************************)
(* Properties of the pipeline.                                             *)
(***************************************************************************)
\* The message sub-task t contributed to the supervisor log.
MessageOf(t) == contribution[t].supervisor_messages[1]

\* C4: when the sub-tasks applied so far contributed messages of distinct
\* identities, the supervisor log is the brief it was seeded with followed
\* by exactly those messages, once each, in the order their merges were
\* applied, whichever sub-task was merged first.
C4_BothOnceInOrder ==
    (/\ applied # <<>>
     /\ \A i, j \in DOMAIN applied :
           i # j => MessageOf(applied[i]).id # MessageOf(applied[j]).id)
        => /\ Len(supervisor_messages) = 1 + Len(applied)
           /\ supervisor_messages[1].type = "human"
           /\ supervisor_messages[1].content = research_brief[1]
           /\ \A k \in DOMAIN applied :
                 supervisor_messages[1 + k] = MessageOf(applied[k])

\* Sub-task 2 was merged before sub-task 1, their identities distinct.
C4_Witness ==
    /\ applied = <<2, 1>>
    /\ MessageOf(1).id # MessageOf(2).id

\* C5: a validated decision with need_clarification = true halts the
\* pipeline with research_brief absent, and the halted pipeline takes no step
\* but the merge of a new user message into the conversation log, after
\* which the gate runs again; research_brief stays absent throughout.
C5_GateHalts ==
    [][/\ (/\ pc = "clarify"
           /\ received'.err = "none"
           /\ received'.obj.need_clarification = Some(TRUE))
          => /\ pc' = "awaiting_user"
             /\ research_brief' = None
             /\ supervisor_messages' = <<>>
       /\ pc = "awaiting_user"
          => /\ research_brief' = None
             /\ pc' = "clarify"
             /\ Len(messages') = Len(messages) + 1
             /\ SubSeq(messages', 1, Len(messages)) = messages
             /\ messages'[Len(messages')].type = "human"]_vars

\* The gate asked, the pipeline is halted and holds no brief.
C5_Witness ==
    /\ pc = "awaiting_user"
    /\ received.obj.need_clarification = Some(TRUE)
    /\ research_brief = None
    /\ messages[Len(messages)].content = "Q"

\* C6 as claimed: a final report is present only with notes non-empty.
C6_ReportNeedsNotes == final_report # None => notes # <<>>

\* C7 as claimed: an empty or absent research_brief fails validation, and
\* the supervisor log is seeded only with a non-empty brief.
C7_NoEmptyBrief ==
    /\ (/\ received.schema = "ResearchQuestion"
        /\ received.obj.research_brief \in {None, Some("")})
           => received.err = "ValidationError"
    /\ supervisor_messages # <<>> => research_brief \notin {None, Some("")}

\* C8: a decision object lacking question or verification is rejected,
\* whatever need_clarification says, and a decision that passed validation
\* has need_clarification, question and verification present.
C8_DecisionComplete ==
    received.schema = "ClarifyWithUser" =>
        /\ (received.obj.question = None \/ received.obj.verification = None)
              => received.err = "ValidationError"
        /\ received.err = "none"
              => \A f \in {"need_clarification", "question", "verification"} :
                    received.obj[f] # None
        /\ pc \in {"awaiting_user", "write_research_brief"}
              => received.err = "none"

\* A decision that needs no clarification but lacks its question was
\* rejected: the gate has not moved and nothing was surfaced.
C8_Witness ==
    /\ received.schema = "ClarifyWithUser"
    /\ received.obj.need_clarification = Some(FALSE)
    /\ received.obj.question = None
    /\ received.obj.verification = Some("V")
    /\ received.err = "ValidationError"
    /\ pc = "clarify"
    /\ Len(messages) = 1

====
